---- MODULE Spec2Model ----
(***************************************************************************)
(* Model of src/main.py: the FoodData record, the DataManager singleton    *)
(* store with its CSV backing table, and the Application.run menu loop.    *)
(*                                                                         *)
(* Python values are tagged records: Float(n) is the float n.0, Str(s) a   *)
(* str, None the None object.  The backing table is modelled at the level  *)
(* of the csv module: a file is a sequence of rows, a row a sequence of    *)
(* field texts.                                                            *)
(***************************************************************************)
EXTENDS Integers, Sequences, FiniteSets, TLC

\* ------------------------------------------------------------- bounds
\* Longest record list add_data may build in the model.
MaxLen == 2

\* ------------------------------------------------------- Python values
Float(n) == [t |-> "float", f |-> n]
Str(s) == [t |-> "str", s |-> s]
None == [t |-> "none"]

\* The float values of the model (100.0 and 200.0).
NumVals == {100, 200}

\* repr() of an integral float, as csv.writer and print render it.
FloatRepr(n) == ToString(n) \o ".0"

\* float(text): the value, or ValueError for a text that is no number.
ParseFloat(text) ==
    IF \E n \in NumVals : text \in {ToString(n), FloatRepr(n)}
    THEN [exc |-> "", v |-> CHOOSE n \in NumVals : text \in {ToString(n), FloatRepr(n)}]
    ELSE [exc |-> "ValueError", v |-> 0]

\* int(text): the value, or ValueError ("1.0" and "x" are no int literals).
ParseInt(text) ==
    IF \E i \in -1..(MaxLen + 1) : text = ToString(i)
    THEN [exc |-> "", v |-> CHOOSE i \in -1..(MaxLen + 1) : text = ToString(i)]
    ELSE [exc |-> "ValueError", v |-> 0]

\* float(x) of a Python value, as calculate_mean applies it to an attribute.
ToFloat(x) ==
    CASE x.t = "float" -> [exc |-> "", v |-> x.f]
      [] x.t = "str"   -> ParseFloat(x.s)
      [] OTHER         -> [exc |-> "TypeError", v |-> 0]

\* ------------------------------------------------------------ FoodData
Fields == <<"food_item", "calories", "protein", "carbs">>
FieldSet == {Fields[k] : k \in 1..Len(Fields)}

FoodData(food_item, calories, protein, carbs) ==
    [food_item |-> food_item, calories |-> calories,
     protein |-> protein, carbs |-> carbs]

\* getattr(item, field) for a field FoodData has.
GetAttr(item, field) ==
    CASE field = "food_item" -> item.food_item
      [] field = "calories"  -> item.calories
      [] field = "protein"   -> item.protein
      [] field = "carbs"     -> item.carbs

\* ------------------------------------------------------- backing table
\* A file: whether it exists, and its rows as csv.reader yields them.
NoFile == [exists |-> FALSE, rows |-> <<>>]
Table(rows) == [exists |-> TRUE, rows |-> rows]

\* What csv.writer writes for one value: a str as is, a float by repr, None as "".
Render(x) ==
    CASE x.t = "str"   -> x.s
      [] x.t = "float" -> FloatRepr(x.f)
      [] OTHER         -> ""

\* The row save_data writes for one item.
Row(item) ==
    <<Render(item.food_item), Render(item.calories),
      Render(item.protein), Render(item.carbs)>>

\* save_data: the file is opened with 'w' and rewritten, header first.
save_data(data) ==
    Table(<<Fields>> \o [k \in 1..Len(data) |-> Row(data[k])])

\* Position of a column name in the header csv.DictReader read (0: absent).
Column(header, name) ==
    IF \E p \in 1..Len(header) : header[p] = name
    THEN CHOOSE p \in 1..Len(header) : header[p] = name
    ELSE 0

\* FoodData(**row) raises TypeError unless the row's keys are exactly the four
\* parameter names: a header with other names, or a row longer than the header
\* (DictReader files the surplus under the key None).
RowTypeError(header, row) ==
    \/ Len(row) > Len(header)
    \/ Len(header) # Len(Fields)
    \/ \E k \in 1..Len(Fields) : Column(header, Fields[k]) = 0

\* The value DictReader gives a column: the text, or None for a short row.
Cell(header, row, name) ==
    IF Column(header, name) <= Len(row) THEN Str(row[Column(header, name)]) ELSE None

FoodDataFromRow(header, row) ==
    FoodData(Cell(header, row, "food_item"), Cell(header, row, "calories"),
             Cell(header, row, "protein"), Cell(header, row, "carbs"))

\* The data rows DictReader yields: those after the header, empty rows skipped.
DataRows(rows) == SelectSeq(Tail(rows), LAMBDA r : Len(r) > 0)

\* read_data: self.data is assigned only once the whole list is built.
read_data(data, file) ==
    IF ~file.exists THEN [data |-> data, exc |-> "FileNotFoundError"]
    ELSE IF Len(file.rows) = 0 THEN [data |-> <<>>, exc |-> ""]
    ELSE LET header == file.rows[1]
             body == DataRows(file.rows)
         IN IF \E k \in 1..Len(body) : RowTypeError(header, body[k])
            THEN [data |-> data, exc |-> "TypeError"]
            ELSE [data |-> [k \in 1..Len(body) |-> FoodDataFromRow(header, body[k])],
                  exc |-> ""]

\* ------------------------------------------------------ store mutations
\* add_data with the save_data call left out.
add_data_no_save(data, file, food_item, calories, protein, carbs) ==
    [data |-> Append(data, FoodData(food_item, calories, protein, carbs)),
     file |-> file, wrote |-> FALSE]

add_data(data, file, food_item, calories, protein, carbs) ==
    LET new == Append(data, FoodData(food_item, calories, protein, carbs))
    IN [data |-> new, file |-> save_data(new), wrote |-> TRUE]

\* edit_data guarded by index < len(self.data) alone: a negative index then
\* counts from the end of the list.
edit_data_no_lower_bound(data, file, index, food_item, calories, protein, carbs) ==
    IF index < Len(data) /\ Len(data) + index >= 0
    THEN LET pos == IF index >= 0 THEN index + 1 ELSE Len(data) + index + 1
             new == [data EXCEPT ![pos] =
                        FoodData(food_item, calories, protein, carbs)]
         IN [data |-> new, file |-> save_data(new), wrote |-> TRUE]
    ELSE [data |-> data, file |-> file, wrote |-> FALSE]

edit_data(data, file, index, food_item, calories, protein, carbs) ==
    IF 0 <= index /\ index < Len(data)
    THEN LET new == [data EXCEPT ![index + 1] =
                        FoodData(food_item, calories, protein, carbs)]
         IN [data |-> new, file |-> save_data(new), wrote |-> TRUE]
    ELSE [data |-> data, file |-> file, wrote |-> FALSE]

\* del data[index]: the items after it move down by one.
DelAt(data, index) ==
    [k \in 1..(Len(data) - 1) |-> IF k <= index THEN data[k] ELSE data[k + 1]]

\* delete_data guarded by index < len(self.data) alone: del data[-1] removes
\* the last item.
delete_data_no_lower_bound(data, file, index) ==
    IF index < Len(data) /\ Len(data) + index >= 0
    THEN LET new == DelAt(data, IF index >= 0 THEN index ELSE Len(data) + index)
         IN [data |-> new, file |-> save_data(new), wrote |-> TRUE]
    ELSE [data |-> data, file |-> file, wrote |-> FALSE]

delete_data(data, file, index) ==
    IF 0 <= index /\ index < Len(data)
    THEN LET new == DelAt(data, index)
         IN [data |-> new, file |-> save_data(new), wrote |-> TRUE]
    ELSE [data |-> data, file |-> file, wrote |-> FALSE]

\* ------------------------------------------------------------ analytics
\* A float result that need not be integral, kept exact: num / den.
Ratio(num, den) == [num |-> num, den |-> den]

\* The exception the comprehension [float(getattr(item, field)) for item in
\* data] raises, "" for none: it stops at the first item that fails, with
\* AttributeError for a name FoodData lacks, else whatever float() raises.
ValuesExc(data, field) ==
    IF Len(data) = 0 THEN ""
    ELSE IF field \notin FieldSet THEN "AttributeError"
    ELSE IF \E k \in 1..Len(data) : ToFloat(GetAttr(data[k], field)).exc # ""
    THEN LET bad == CHOOSE k \in 1..Len(data) :
                       /\ ToFloat(GetAttr(data[k], field)).exc # ""
                       /\ \A j \in 1..(k - 1) : ToFloat(GetAttr(data[j], field)).exc = ""
         IN ToFloat(GetAttr(data[bad], field)).exc
    ELSE ""

Values(data, field) == [k \in 1..Len(data) |-> ToFloat(GetAttr(data[k], field)).v]

RECURSIVE Sum(_)
Sum(values) == IF Len(values) = 0 THEN 0 ELSE Head(values) + Sum(Tail(values))

\* sorted(values), by insertion.
Insert(sorted, x) ==
    LET below == SelectSeq(sorted, LAMBDA y : y <= x)
        above == SelectSeq(sorted, LAMBDA y : y > x)
    IN below \o <<x>> \o above

RECURSIVE Sorted(_)
Sorted(values) ==
    IF Len(values) = 0 THEN <<>> ELSE Insert(Sorted(Tail(values)), Head(values))

\* A mean that answers 0 for no data point instead of raising.
calculate_mean_zero_when_empty(data, field) ==
    IF ValuesExc(data, field) # "" THEN [exc |-> ValuesExc(data, field), ret |-> <<>>]
    ELSE IF Len(data) = 0 THEN [exc |-> "", ret |-> <<Ratio(0, 1)>>]
    ELSE [exc |-> "", ret |-> <<Ratio(Sum(Values(data, field)), Len(data))>>]

\* statistics.mean: StatisticsError for no data point. ret is <<>> when the call
\* raises and <<value>> when it returns.
calculate_mean(data, field) ==
    IF ValuesExc(data, field) # "" THEN [exc |-> ValuesExc(data, field), ret |-> <<>>]
    ELSE IF Len(data) = 0 THEN [exc |-> "StatisticsError", ret |-> <<>>]
    ELSE [exc |-> "", ret |-> <<Ratio(Sum(Values(data, field)), Len(data))>>]

\* statistics.median: the middle value, or the mean of the two middle values.
calculate_median(data, field) ==
    IF ValuesExc(data, field) # "" THEN [exc |-> ValuesExc(data, field), ret |-> <<>>]
    ELSE IF Len(data) = 0 THEN [exc |-> "StatisticsError", ret |-> <<>>]
    ELSE LET s == Sorted(Values(data, field))
             n == Len(s)
         IN IF n % 2 = 1
            THEN [exc |-> "", ret |-> <<Ratio(s[(n + 1) \div 2], 1)>>]
            ELSE [exc |-> "", ret |-> <<Ratio(s[n \div 2] + s[n \div 2 + 1], 2)>>]

\* filter_data: getattr(item, field) == value, Python's == on the two objects
\* (a float never equals a str). getattr runs once per item, so an unknown
\* name raises only when there is an item.
filter_data(data, field, value) ==
    IF Len(data) > 0 /\ field \notin FieldSet
    THEN [exc |-> "AttributeError", ret |-> <<>>]
    ELSE [exc |-> "",
          ret |-> SelectSeq(data, LAMBDA item : GetAttr(item, field) = value)]

\* --------------------------------------------------------- construction
\* __new__ with the two attribute assignments outside the if: every call
\* returns the one object, and empties its data.
DataManager_new_reinit(inst, heap) ==
    IF inst = 0
    THEN [instance |-> Len(heap) + 1,
          objs |-> Append(heap, [data |-> <<>>, filename |-> "food_nutrition.csv"]),
          ref |-> Len(heap) + 1]
    ELSE [instance |-> inst,
          objs |-> [heap EXCEPT ![inst] = [data |-> <<>>, filename |-> "food_nutrition.csv"]],
          ref |-> inst]

\* DataManager.__new__ on the class attribute _instance and the heap of
\* DataManager objects: the first call allocates the object and sets its data
\* and filename, every later call returns _instance as it is.
DataManager_new(inst, heap) ==
    IF inst = 0
    THEN [instance |-> Len(heap) + 1,
          objs |-> Append(heap, [data |-> <<>>, filename |-> "food_nutrition.csv"]),
          ref |-> Len(heap) + 1]
    ELSE [instance |-> inst, objs |-> heap, ref |-> inst]

\* ---------------------------------------------------------------- state
VARIABLES
    instance,       \* DataManager._instance: 0 for None, else the object
    objs,           \* the DataManager objects allocated: [data, filename]
    data_manager,   \* the object __main__ hands to Application
    refs,           \* the objects later DataManager() calls returned
    file,           \* the file at self.filename
    pc,             \* run(): "menu" in the loop, "exited" after choice 7,
                    \* "crashed" once an exception left run()
    last,           \* the menu action just taken and how it ended
    mean,           \* run()'s local mean, <<>> until calculate_mean returns
    median,         \* run()'s local median
    filtered_data   \* run()'s local filtered_data

vars == <<instance, objs, data_manager, refs, file, pc, last,
          mean, median, filtered_data>>

\* self.data and self.filename of the application's store.
Data == objs[data_manager].data
Filename == objs[data_manager].filename

\* ------------------------------------------------------- typed at prompts
FoodTexts == {"A", "200"}
CalorieTexts == {"100", "200.0", "abc"}
ProteinTexts == {"100"}
CarbsTexts == {"100"}
IndexTexts == {ToString(i) : i \in -1..MaxLen} \cup {"x"}
FieldTexts == FieldSet \cup {"unknown"}
ValueTexts == {"A", "200", "200.0"}

\* Tables the user may start the program on.
InitialFiles ==
    { NoFile,
      Table(<<>>),
      Table(<<Fields>>),
      Table(<<Fields, <<"A", "200", "100", "100">>, <<>>, <<"200", "100", "100", "100">>>>),
      Table(<<Fields, <<"A", "abc", "100", "100">>>>),
      Table(<<Fields, <<"A", "200">>>>),
      Table(<<Fields, <<"A", "200", "100", "100", "100">>>>),
      Table(<<<<"name", "calories", "protein", "carbs">>, <<"A", "200", "100", "100">>>>) }

\* The record of a menu action: the store call made (op), or "input" when a
\* prompt's int()/float() raised before any call; the exception that left the
\* action ("" for none); whether save_data rewrote the file; the arguments.
Call(choice, op) ==
    [choice |-> choice, op |-> op, exc |-> "", wrote |-> FALSE,
     index |-> 0, field |-> "", value |-> "", args |-> <<>>]

\* An exception propagates out of run(): nothing catches it.
After(exc) == IF exc = "" THEN "menu" ELSE "crashed"

SetData(d) == objs' = [objs EXCEPT ![data_manager].data = d]

NoOutput == mean' = <<>> /\ median' = <<>> /\ filtered_data' = <<>>

\* __main__: data_manager = DataManager(); Application(data_manager).run()
Init ==
    LET made == DataManager_new(0, <<>>)
    IN /\ instance = made.instance
       /\ objs = made.objs
       /\ data_manager = made.ref
       /\ refs = {}
       /\ file \in InitialFiles
       /\ pc = "menu"
       /\ last = Call("", "start")
       /\ mean = <<>>
       /\ median = <<>>
       /\ filtered_data = <<>>

\* ---------------------------------------------------------- menu actions
\* choice '1'
ReadData ==
    /\ pc = "menu"
    /\ LET r == read_data(Data, file)
       IN /\ SetData(r.data)
          /\ pc' = After(r.exc)
          /\ last' = [Call("1", "read_data") EXCEPT !.exc = r.exc]
    /\ NoOutput
    /\ UNCHANGED <<instance, data_manager, refs, file>>

\* choice '2'
AddData ==
    /\ pc = "menu"
    /\ Len(Data) < MaxLen
    /\ \E food_item \in FoodTexts, c \in CalorieTexts, p \in ProteinTexts, cb \in CarbsTexts :
         LET calories == ParseFloat(c)
             protein == ParseFloat(p)
             carbs == ParseFloat(cb)
         IN IF calories.exc # "" \/ protein.exc # "" \/ carbs.exc # ""
            THEN /\ pc' = "crashed"
                 /\ last' = [Call("2", "input") EXCEPT !.exc = "ValueError"]
                 /\ UNCHANGED <<objs, file>>
            ELSE LET r == add_data(Data, file, Str(food_item), Float(calories.v),
                                   Float(protein.v), Float(carbs.v))
                 IN /\ SetData(r.data)
                    /\ file' = r.file
                    /\ pc' = "menu"
                    /\ last' = [Call("2", "add_data") EXCEPT
                                  !.wrote = r.wrote,
                                  !.args = <<Str(food_item), Float(calories.v),
                                             Float(protein.v), Float(carbs.v)>>]
    /\ NoOutput
    /\ UNCHANGED <<instance, data_manager, refs>>

\* choice '3'
EditData ==
    /\ pc = "menu"
    /\ \E i \in IndexTexts, food_item \in FoodTexts, c \in CalorieTexts,
          p \in ProteinTexts, cb \in CarbsTexts :
         LET index == ParseInt(i)
             calories == ParseFloat(c)
             protein == ParseFloat(p)
             carbs == ParseFloat(cb)
         IN IF index.exc # "" \/ calories.exc # "" \/ protein.exc # "" \/ carbs.exc # ""
            THEN /\ pc' = "crashed"
                 /\ last' = [Call("3", "input") EXCEPT !.exc = "ValueError"]
                 /\ UNCHANGED <<objs, file>>
            ELSE LET r == edit_data(Data, file, index.v, Str(food_item),
                                    Float(calories.v), Float(protein.v), Float(carbs.v))
                 IN /\ SetData(r.data)
                    /\ file' = r.file
                    /\ pc' = "menu"
                    /\ last' = [Call("3", "edit_data") EXCEPT
                                  !.wrote = r.wrote,
                                  !.index = index.v,
                                  !.args = <<Str(food_item), Float(calories.v),
                                             Float(protein.v), Float(carbs.v)>>]
    /\ NoOutput
    /\ UNCHANGED <<instance, data_manager, refs>>

\* choice '4'
DeleteData ==
    /\ pc = "menu"
    /\ \E i \in IndexTexts :
         LET index == ParseInt(i)
         IN IF index.exc # ""
            THEN /\ pc' = "crashed"
                 /\ last' = [Call("4", "input") EXCEPT !.exc = "ValueError"]
                 /\ UNCHANGED <<objs, file>>
            ELSE LET r == delete_data(Data, file, index.v)
                 IN /\ SetData(r.data)
                    /\ file' = r.file
                    /\ pc' = "menu"
                    /\ last' = [Call("4", "delete_data") EXCEPT
                                  !.wrote = r.wrote, !.index = index.v]
    /\ NoOutput
    /\ UNCHANGED <<instance, data_manager, refs>>

\* choice '5': calculate_mean, then calculate_median if that returned
Analysis ==
    /\ pc = "menu"
    /\ \E field \in FieldTexts :
         LET m == calculate_mean(Data, field)
             md == calculate_median(Data, field)
             exc == IF m.exc # "" THEN m.exc ELSE md.exc
         IN /\ mean' = m.ret
            /\ median' = IF m.exc # "" THEN <<>> ELSE md.ret
            /\ pc' = After(exc)
            /\ last' = [Call("5", "analysis") EXCEPT !.exc = exc, !.field = field]
    /\ filtered_data' = <<>>
    /\ UNCHANGED <<instance, objs, data_manager, refs, file>>

\* choice '6': the value goes to filter_data as the text input() returned
FilterData ==
    /\ pc = "menu"
    /\ \E field \in FieldTexts, value \in ValueTexts :
         LET r == filter_data(Data, field, Str(value))
         IN /\ filtered_data' = r.ret
            /\ pc' = After(r.exc)
            /\ last' = [Call("6", "filter_data") EXCEPT
                          !.exc = r.exc, !.field = field, !.value = value]
    /\ mean' = <<>>
    /\ median' = <<>>
    /\ UNCHANGED <<instance, objs, data_manager, refs, file>>

\* choice '7'
Quit ==
    /\ pc = "menu"
    /\ pc' = "exited"
    /\ last' = Call("7", "quit")
    /\ NoOutput
    /\ UNCHANGED <<instance, objs, data_manager, refs, file>>

\* any other choice
InvalidChoice ==
    /\ pc = "menu"
    /\ pc' = "menu"
    /\ last' = Call("other", "invalid")
    /\ NoOutput
    /\ UNCHANGED <<instance, objs, data_manager, refs, file>>

\* A further DataManager() call somewhere in the process.
Construct ==
    /\ pc = "menu"
    /\ LET made == DataManager_new(instance, objs)
       IN /\ instance' = made.instance
          /\ objs' = made.objs
          /\ refs' = refs \cup {made.ref}
    /\ last' = Call("", "construct")
    /\ NoOutput
    /\ UNCHANGED <<data_manager, file, pc>>

Next ==
    \/ ReadData
    \/ AddData
    \/ EditData
    \/ DeleteData
    \/ Analysis
    \/ FilterData
    \/ Quit
    \/ InvalidChoice
    \/ Construct

Spec == Init /\ [][Next]_vars

\* =============================================================== claims
\* The table a store holding d is to have on disk: the header row, then one
\* row per record in order, each field as csv.writer renders it.
Snapshot(f, d) ==
    /\ f.exists
    /\ Len(f.rows) = Len(d) + 1
    /\ f.rows[1] = <<"food_item", "calories", "protein", "carbs">>
    /\ \A k \in 1..Len(d) :
         f.rows[k + 1] = <<Render(d[k].food_item), Render(d[k].calories),
                           Render(d[k].protein), Render(d[k].carbs)>>

InRange(i, d) == 0 <= i /\ i < Len(d)

\* C1: right after every add, every edit with an index in range and every
\* delete with an index in range, the backing table is the header followed by
\* exactly one row per in-memory record, same order, same field values.
C1_WriteThroughSnapshot ==
    [][(\/ last'.op = "add_data"
        \/ /\ last'.op \in {"edit_data", "delete_data"}
           /\ InRange(last'.index, Data))
       => Snapshot(file', Data')]_vars

\* A delete in range has just rewritten a table that was loaded from disk.
C1_Witness ==
    /\ last.op = "delete_data"
    /\ last.wrote
    /\ Len(Data) = 1
    /\ Data[1].calories.t = "str"
    /\ Snapshot(file, Data)

\* C2: save() followed by load() leaves the in-memory sequence equal, record
\* for record and field for field, to the one before save(): a load of the
\* table save_data wrote for the current data succeeds and changes nothing.
C2_RoundTrip ==
    [][(last'.op = "read_data" /\ file = save_data(Data))
       => (last'.exc = "" /\ Data' = Data)]_vars

\* C3: edit with an index in range replaces exactly that position by a record
\* of the given fields and leaves the length and every other record alone;
\* with an index out of range it raises nothing, changes nothing and does
\* not write the table.
C3_EditFrame ==
    [][last'.op = "edit_data"
       => LET i == last'.index
              a == last'.args
          IN /\ last'.exc = ""
             /\ IF InRange(i, Data)
                THEN /\ Len(Data') = Len(Data)
                     /\ Data'[i + 1] = [food_item |-> a[1], calories |-> a[2],
                                        protein |-> a[3], carbs |-> a[4]]
                     /\ \A k \in 1..Len(Data) : k # i + 1 => Data'[k] = Data[k]
                ELSE /\ Data' = Data
                     /\ file' = file
                     /\ ~last'.wrote]_vars

\* An edit of the second of two records went through: the record there is
\* the one given, the first differs from it.
C3_Witness ==
    /\ last.op = "edit_data"
    /\ last.index = 1
    /\ last.wrote
    /\ Len(Data) = 2
    /\ Data[1] # Data[2]
    /\ Data[2].food_item = last.args[1]

\* C4: delete with an index in range shortens the sequence by one, keeps the
\* records before the index in place and moves each later record down by one;
\* with an index out of range nothing changes, nothing is written and no
\* error is raised.
C4_DeleteShift ==
    [][last'.op = "delete_data"
       => LET i == last'.index
          IN /\ last'.exc = ""
             /\ IF InRange(i, Data)
                THEN /\ Len(Data') = Len(Data) - 1
                     /\ \A k \in 1..i : Data'[k] = Data[k]
                     /\ \A k \in (i + 2)..Len(Data) : Data'[k - 1] = Data[k]
                ELSE /\ Data' = Data
                     /\ file' = file
                     /\ ~last'.wrote]_vars

\* The first of several records was deleted and a later one moved down.
C4_Witness ==
    /\ last.op = "delete_data"
    /\ last.index = 0
    /\ last.wrote
    /\ Len(Data) >= 1

\* The number a field value stands for, if any: a float itself, a text by
\* float(); <<>> for None and for a text that is no number.
Number(x) == IF ToFloat(x).exc = "" THEN <<ToFloat(x).v>> ELSE <<>>

\* C5: filter on calories, protein or carbs with the text typed at the prompt
\* returns, in store order, exactly the records whose field equals the typed
\* number numerically, whether they came from add or from load.
C5_FilterNumeric ==
    (/\ last.op = "filter_data"
     /\ last.field \in {"calories", "protein", "carbs"}
     /\ Number(Str(last.value)) # <<>>)
    => /\ last.exc = ""
       /\ filtered_data =
            SelectSeq(Data, LAMBDA item :
                Number(GetAttr(item, last.field)) = Number(Str(last.value)))

\* C6: mean/median on food_item or on an unknown name, and filter on an
\* unknown name, signal an error and return no value, whatever the store
\* holds, and write nothing. (Any exception is taken for the FieldError.)
C6_FieldErrors ==
    /\ (last.op = "analysis" /\ last.field \notin {"calories", "protein", "carbs"})
       => (last.exc # "" /\ mean = <<>> /\ median = <<>> /\ ~last.wrote)
    /\ (last.op = "filter_data"
        /\ last.field \notin {"food_item", "calories", "protein", "carbs"})
       => (last.exc # "" /\ ~last.wrote)

\* C7: on an empty store, mean and median of a numeric field end in the
\* StatisticsError of the statistics module and return no number; the store
\* stays empty and the table is not written.
C7_EmptyStoreAnalysis ==
    [][(/\ last'.op = "analysis"
        /\ last'.field \in {"calories", "protein", "carbs"}
        /\ Len(Data) = 0)
       => /\ last'.exc = "StatisticsError"
          /\ mean' = <<>>
          /\ median' = <<>>
          /\ Data' = <<>>
          /\ file' = file
          /\ ~last'.wrote]_vars

\* Analysis of calories was asked of an empty store and raised.
C7_Witness ==
    /\ last.op = "analysis"
    /\ last.field = "calories"
    /\ Len(Data) = 0
    /\ last.exc = "StatisticsError"
    /\ mean = <<>>

\* A data row lacking one of the four fields or holding a calories, protein
\* or carbs text that is no number.
Malformed(row) ==
    \/ Len(row) < 4
    \/ \E k \in 2..4 : ParseFloat(row[k]).exc # ""

\* C8: a load of a table with a malformed data row fails and leaves the
\* in-memory sequence as it was; a load that succeeds replaces it by the
\* table's data rows in table order.
C8_LoadAllOrNothing ==
    [][(last'.op = "read_data" /\ file.exists /\ Len(file.rows) > 0)
       => LET body == SelectSeq(Tail(file.rows), LAMBDA r : Len(r) > 0)
          IN IF \E k \in 1..Len(body) : Malformed(body[k])
             THEN last'.exc # "" /\ Data' = Data
             ELSE last'.exc = ""
                  => /\ Len(Data') = Len(body)
                     /\ \A k \in 1..Len(body) : Row(Data'[k]) = body[k]]_vars

\* C9: run() leaves its loop only on choice 7; no error ends the process.
C9_HaltsOnlyOnQuit ==
    pc # "menu" => (pc = "exited" /\ last.op = "quit")

\* C10: every DataManager() call returns the one instance, the one the
\* application holds, and a call made after the store was used leaves the
\* object's record sequence and filename as they were.
C10_SingleInstance ==
    [][/\ \A r \in refs' : r = instance' /\ r = data_manager'
       /\ last'.op = "construct"
          => /\ instance' = instance
             /\ objs' = objs
             /\ Len(objs') = 1
             /\ objs'[data_manager'].filename = "food_nutrition.csv"]_vars

\* DataManager() was called again on a populated store, whose records stayed.
C10_Witness ==
    /\ last.op = "construct"
    /\ refs = {data_manager}
    /\ Len(Data) = 2

====
